---- MODULE Spec2Model ----
(***************************************************************************)
(* Model of doc_page_extractor/extractor.py: class DocExtractor.            *)
(*                                                                         *)
(* One extract() call is a sequence of steps (pc), one per method that     *)
(* extract calls in turn.  The three external models are collaborators:    *)
(* what they return is an input of the step that calls them.               *)
(*                                                                         *)
(* Conventions                                                             *)
(*   - Python None is the empty tuple <<>>, a present value x is <<x>>     *)
(*     (the cached (ocr, lang) tuple is the pair itself).                  *)
(*   - angles are in milliradians, so _TINY_ROTATION = 0.005 rad is 5.     *)
(*   - list indices are 1-based; python index i is i+1 here.               *)
(*   - a Rectangle is kept symbolically: which collaborator output it is   *)
(*     (src, idx) and the adjusters applied to it since, in order (path).  *)
(***************************************************************************)
EXTENDS Integers, Sequences, FiniteSets, TLC

\* ---------------------------------------------------------------- bounds
\* fragments / regions handed to the matcher in MatchSpec
MaxFrags == 3
MaxLayouts == 2
\* fragments / regions of one page in Spec
MaxPageFrags == 2
MaxPageLayouts == 2
\* saturation of the construction counters
MaxBuilds == 2

\* ------------------------------------------------------------- constants
TINY_ROTATION == 5

\* values intersection_area takes (0 = disjoint; 10 and 15 as in the
\* two-region example)
Areas == {0, 10, 15}

\* rotations calculate_rotation reports for a page with text: beyond the
\* threshold on both sides, and exactly on it
Rotations == {-6, 5, 6}

SupportedLangs == {"en", "ch"}
Langs == SupportedLangs \cup {"xx"}

ImageSizes == {<<300, 200>>, <<0, 0>>, <<0, 200>>}

None == <<>>

Abs(x) == IF x < 0 THEN -x ELSE x

Min2(a, b) == IF a < b THEN a ELSE b

\* ------------------------------------------------------------- geometry
RawRect(src, idx) == [src |-> src, idx |-> idx, path |-> <<>>]

\* RotationAdjuster(origin_size, new_size, rotation, to_origin_coordinate)
RotationAdjuster(origin_size, new_size, rot, to_origin) ==
  [origin_size |-> origin_size, new_size |-> new_size,
   rotation |-> rot, to_origin_coordinate |-> to_origin]

\* adjuster.adjust applied to the four corners of a rectangle: a new
\* Rectangle, the image of the old one under that adjuster
AdjustRect(rect, adjuster) == [rect EXCEPT !.path = Append(@, adjuster)]

\* intersection_area(fragment.rect, layout.rect) for the fragment at hand:
\* row is that fragment's overlap with each detected box, by the box's
\* position in the detector's output
intersection_area(row, lrect) == row[lrect.idx]

AreaRows(m) == [1..m -> Areas]

\* --------------------------------------------------------------- matcher
\* inner loop of lines 208-214 for one fragment: i is the next region to
\* look at, (max_area, max_layout_index) the running maximum
RECURSIVE ScanLayouts(_, _, _, _, _)
ScanLayouts(row, lays, i, max_area, max_layout_index) ==
  IF i > Len(lays) THEN max_layout_index
  ELSE LET area_i == intersection_area(row, lays[i].rect)
       IN IF area_i > max_area
          THEN ScanLayouts(row, lays, i + 1, area_i, i)
          ELSE ScanLayouts(row, lays, i + 1, max_area, max_layout_index)

\* the scan with >= in place of >: the last maximal region wins
RECURSIVE ScanLayoutsLastWins(_, _, _, _, _)
ScanLayoutsLastWins(row, lays, i, max_area, max_layout_index) ==
  IF i > Len(lays) THEN max_layout_index
  ELSE LET area_i == intersection_area(row, lays[i].rect)
       IN IF area_i >= max_area
          THEN ScanLayoutsLastWins(row, lays, i + 1, area_i, i)
          ELSE ScanLayoutsLastWins(row, lays, i + 1, max_area, max_layout_index)

MaxLayoutIndexLastWins(row, lays) == ScanLayoutsLastWins(row, lays, 1, 0, 1)

\* max_layout_index after the inner loop (python 0 is 1 here)
MaxLayoutIndex(row, lays) == ScanLayouts(row, lays, 1, 0, 1)

\* assignment in place of append: the region keeps only its last fragment
AppendedOverwrites(lays, j, fragment) ==
  [lays EXCEPT ![j].fragments = <<fragment>>]

\* line 215: layouts[max_layout_index].fragments.append(fragment)
Appended(lays, j, fragment) ==
  [lays EXCEPT ![j].fragments = Append(@, fragment)]

\* list.sort(key=order) is stable: x goes after every element whose key is
\* not greater
RECURSIVE InsertFragment(_, _)
InsertFragment(x, sorted) ==
  IF sorted = <<>> THEN <<x>>
  ELSE IF x.order < Head(sorted).order THEN <<x>> \o sorted
       ELSE <<Head(sorted)>> \o InsertFragment(x, Tail(sorted))

RECURSIVE SortFragments(_, _)
SortFragments(s, acc) ==
  IF s = <<>> THEN acc ELSE SortFragments(Tail(s), InsertFragment(Head(s), acc))

\* the per-region sort left out
SortedFragmentsUnsorted(s) == s

\* line 218: layout.fragments.sort(key=lambda x: x.order)
SortedFragments(s) == SortFragments(s, <<>>)

RECURSIVE InsertLayout(_, _)
InsertLayout(x, sorted) ==
  IF sorted = <<>> THEN <<x>>
  ELSE IF x.fragments[1].order < Head(sorted).fragments[1].order
       THEN <<x>> \o sorted
       ELSE <<Head(sorted)>> \o InsertLayout(x, Tail(sorted))

RECURSIVE SortLayouts(_, _)
SortLayouts(s, acc) ==
  IF s = <<>> THEN acc ELSE SortLayouts(Tail(s), InsertLayout(Head(s), acc))

\* line 220: layouts = [layout for layout in layouts if len(layout.fragments) > 0]
NonEmptyLayouts(lays) == SelectSeq(lays, LAMBDA l : Len(l.fragments) > 0)

\* the region sort left out
SortedLayoutsUnsorted(lays) == lays

\* line 221: layouts.sort(key=lambda x: x.fragments[0].order)
SortedLayouts(lays) == SortLayouts(lays, <<>>)

\* lines 217-223 on the regions the first loop filled
FinishedLayouts(lays) ==
  SortedLayouts(NonEmptyLayouts(
    [j \in 1..Len(lays) |-> [lays[j] EXCEPT !.fragments = SortedFragments(@)]]))

\* ------------------------------------------------------- model handles
\* _get_ocr with the cache compared by engine only: a cached engine is
\* returned whatever language is asked for
get_ocr_ignores_lang(cache, l) ==
  IF cache # None
  THEN [ocr |-> cache[1], cache |-> cache, built |-> FALSE]
  ELSE [ocr |-> [lang |-> l], cache |-> <<[lang |-> l], l>>, built |-> TRUE]

\* _get_ocr(lang): the engine returned, the cache afterwards, and whether
\* PaddleOCR(lang=lang, ...) was constructed. An engine is the language it
\* was built for.
get_ocr(cache, l) ==
  IF cache # None /\ l = cache[2]
  THEN [ocr |-> cache[1], cache |-> cache, built |-> FALSE]
  ELSE [ocr |-> [lang |-> l], cache |-> <<[lang |-> l], l>>, built |-> TRUE]

\* the `if self._yolo is None:` / `if self._layout is None:` lazy
\* construction of _get_yolo and _order_fragments; builds counts the
\* constructions so far and names the new handle
get_handle(cached, builds) ==
  IF cached = None
  THEN [handle |-> <<[serial |-> Min2(builds + 1, MaxBuilds)]>>, built |-> TRUE]
  ELSE [handle |-> cached, built |-> FALSE]

\* ------------------------------------------------------------- rotation
\* the threshold test with >= in place of >
IsRotatedInclusive(rot) == Abs(rot) >= TINY_ROTATION

\* line 53: abs(rotation) > _TINY_ROTATION
IsRotated(rot) == Abs(rot) > TINY_ROTATION

\* image.rotate(angle, expand=True): the canvas grows to hold the rotated
\* page; for a small angle t the new width is about w + h*|t| (rounded up)
CeilDiv(a, b) == (a + b - 1) \div b

RotatedImage(img, rot) ==
  [size |-> << img.size[1] + CeilDiv(img.size[2] * Abs(rot), 1000),
               img.size[2] + CeilDiv(img.size[1] * Abs(rot), 1000) >>,
   angle |-> rot]

\* _create_adjusters
create_adjusters(img, rot) ==
  LET rotated == RotatedImage(img, rot)
  IN [to_origin_adjuster |-> RotationAdjuster(img.size, rotated.size, rot, TRUE),
      to_new_adjuster |-> RotationAdjuster(img.size, rotated.size, rot, FALSE),
      image |-> rotated]

\* _adjust_fragment_rectangles
adjust_fragment_rectangles(frags, adjuster) ==
  [k \in 1..Len(frags) |-> [frags[k] EXCEPT !.rect = AdjustRect(@, adjuster)]]

\* _adjust_layout_rectangles
adjust_layout_rectangles(lays, adjuster) ==
  [j \in 1..Len(lays) |-> [lays[j] EXCEPT !.rect = AdjustRect(@, adjuster)]]

\* the restore loop left out: fragments keep the rotated-frame rectangle
RestoredRectKeepsAdjusted(fragment, origin_rects) == fragment.rect

\* lines 68-69: fragment.rect = origin_rect, the zip pairing fragment k
\* with the k-th saved rectangle (a fragment's id is its position in the
\* OCR output)
RestoredRect(fragment, origin_rects) == origin_rects[fragment.id]

\* the Layout objects hold the very OCRFragment objects of `fragments`:
\* the restore loop is seen through every region's list
restore_fragments(lays, origin_rects) ==
  [j \in 1..Len(lays) |->
     LET fs == lays[j].fragments
     IN [lays[j] EXCEPT !.fragments =
           [k \in 1..Len(fs) |->
              [fs[k] EXCEPT !.rect = RestoredRect(fs[k], origin_rects)]]]]

\* ------------------------------------------------------- reading order
RECURSIVE Perms(_)
Perms(S) ==
  IF S = {} THEN {<<>>}
  ELSE UNION {{<<x>> \o p : p \in Perms(S \ {x})} : x \in S}

\* what parse_logits hands back for n boxes: a permutation of 0..n-1, or,
\* for a page with text and a predictor that breaks its contract, one rank
\* short or one rank long
RankSeqs(n) ==
  LET perms == Perms(0..(n - 1))
  IN perms
     \cup {SubSeq(p, 1, n - 1) : p \in {q \in perms : n > 0}}
     \cup {Append(p, n) : p \in {q \in perms : n > 0}}

\* lines 172-173: for order, fragment in zip(orders, fragments): zip stops
\* at the shorter of the two
Ordered(frags, orders) ==
  [k \in 1..Len(frags) |->
     IF k <= Len(orders) THEN [frags[k] EXCEPT !.order = orders[k]]
     ELSE frags[k]]

\* ----------------------------------------------------------------- state
VARIABLES
  ocr_and_lan,      \* self._ocr_and_lan
  yolo,             \* self._yolo
  layout_model,     \* self._layout
  pc,               \* where the current extract call stands
  source_image,     \* the image argument as passed in
  image,            \* local image (reassigned by line 54)
  lang, adjust_points,
  fragments,        \* list of OCRFragment [id, order, rect]
  rotation,
  fragment_origin_rectangles, to_origin_adjuster, to_new_adjuster,
  adjusted_image,
  ranks,            \* `orders` of line 170
  layouts,          \* list of Layout [idx, rect, fragments]
  fragment_index,   \* position of the matcher's outer loop
  area_row,         \* the areas the inner loop saw for the last fragment
  result,           \* the ExtractedResult, None until returned
  error,            \* the exception that ended the call, "" if none
  \* history
  ocr_before,       \* self._ocr_and_lan when the call began
  ocr_used,         \* the engine _get_ocr returned to this call
  built,            \* models constructed during this call
  invoked,          \* models run during this call
  yolo_builds, layout_builds,   \* constructions so far (saturating)
  matched           \* the matcher's return value

self_vars == <<ocr_and_lan, yolo, layout_model, yolo_builds, layout_builds>>
arg_vars == <<source_image, lang, adjust_points, ocr_before, ocr_used>>
rot_vars == <<image, rotation, fragment_origin_rectangles, to_origin_adjuster,
              to_new_adjuster, adjusted_image>>
match_vars == <<layouts, fragment_index, area_row, matched>>

vars == <<ocr_and_lan, yolo, layout_model, pc, source_image, image, lang,
          adjust_points, fragments, rotation, fragment_origin_rectangles,
          to_origin_adjuster, to_new_adjuster, adjusted_image, ranks, layouts,
          fragment_index, area_row, result, error, ocr_before, ocr_used,
          built, invoked, yolo_builds, layout_builds, matched>>

NoImage == [size |-> <<0, 0>>, angle |-> 0]

\* the locals of a call that has not begun
NoCall ==
  /\ source_image = NoImage /\ image = NoImage
  /\ lang = "" /\ adjust_points = FALSE
  /\ fragments = <<>> /\ rotation = 0
  /\ fragment_origin_rectangles = None
  /\ to_origin_adjuster = None /\ to_new_adjuster = None
  /\ adjusted_image = None
  /\ ranks = <<>> /\ layouts = <<>> /\ fragment_index = 1 /\ area_row = <<>>
  /\ result = None /\ error = ""
  /\ ocr_before = None /\ ocr_used = None
  /\ built = {} /\ invoked = {}
  /\ matched = None

\* DocExtractor.__init__
Init ==
  /\ ocr_and_lan = None /\ yolo = None /\ layout_model = None
  /\ yolo_builds = 0 /\ layout_builds = 0
  /\ pc = "idle"
  /\ NoCall

\* ------------------------------------------------------- collaborators
Images == {[size |-> sz, angle |-> 0] : sz \in ImageSizes}

ZeroArea(img) == img.size[1] = 0 \/ img.size[2] = 0

\* the fragments _search_orc_fragments yields for n OCR lines
OcrFragments(n) ==
  [k \in 1..n |-> [id |-> k, order |-> 0, rect |-> RawRect("ocr", k)]]

\* the angles calculate_rotation may report: 0 for a page without text
calculate_rotation(frags) == IF frags = <<>> THEN {0} ELSE Rotations

\* the Layout list _get_layouts builds from m detected boxes
DetectedLayouts(m) ==
  [j \in 1..m |-> [idx |-> j, rect |-> RawRect("det", j), fragments |-> <<>>]]

\* ---------------------------------------------------------------- extract
\* lines 44-45 with an unsupported language: _get_ocr finds no cached
\* engine for it and PaddleOCR(lang=...) refuses the language
ExtractBadLanguage ==
  /\ pc = "idle"
  /\ \E img \in Images, l \in Langs \ SupportedLangs, ap \in BOOLEAN :
       /\ get_ocr(ocr_and_lan, l).built
       /\ source_image' = img /\ image' = img /\ lang' = l /\ adjust_points' = ap
  /\ ocr_before' = ocr_and_lan
  /\ error' = "PaddleOCR: unsupported lang"
  /\ pc' = "raised"
  /\ UNCHANGED <<self_vars, fragments, rotation, fragment_origin_rectangles,
                 to_origin_adjuster, to_new_adjuster, adjusted_image, ranks,
                 match_vars, result, ocr_used, built, invoked>>

\* lines 44-45 on an image without pixels, where the engine fails on it:
\* the engine has been obtained (and cached) and run by then
ExtractOcrFails ==
  /\ pc = "idle"
  /\ \E img \in Images, l \in SupportedLangs, ap \in BOOLEAN :
       LET g == get_ocr(ocr_and_lan, l)
       IN /\ ZeroArea(img)
          /\ source_image' = img /\ image' = img /\ lang' = l /\ adjust_points' = ap
          /\ ocr_and_lan' = g.cache
          /\ ocr_used' = <<g.ocr>>
          /\ built' = IF g.built THEN {"ocr"} ELSE {}
  /\ ocr_before' = ocr_and_lan
  /\ invoked' = {"ocr"}
  /\ error' = "PaddleOCR.ocr failed"
  /\ pc' = "raised"
  /\ UNCHANGED <<yolo, layout_model, yolo_builds, layout_builds, fragments,
                 rotation, fragment_origin_rectangles, to_origin_adjuster,
                 to_new_adjuster, adjusted_image, ranks, match_vars, result>>

\* lines 44-46: OCR (through _get_ocr) and calculate_rotation
ExtractSearch ==
  /\ pc = "idle"
  /\ \E img \in Images, l \in SupportedLangs, ap \in BOOLEAN :
       LET g == get_ocr(ocr_and_lan, l)
       IN /\ source_image' = img /\ image' = img /\ lang' = l /\ adjust_points' = ap
          /\ ocr_and_lan' = g.cache
          /\ ocr_used' = <<g.ocr>>
          /\ built' = IF g.built THEN {"ocr"} ELSE {}
          /\ \E n \in 0..(IF ZeroArea(img) THEN 0 ELSE MaxPageFrags) :
               /\ fragments' = OcrFragments(n)
               /\ rotation' \in calculate_rotation(fragments')
  /\ ocr_before' = ocr_and_lan
  /\ invoked' = {"ocr"}
  /\ pc' = "adjust"
  /\ UNCHANGED <<yolo, layout_model, yolo_builds, layout_builds,
                 fragment_origin_rectangles, to_origin_adjuster,
                 to_new_adjuster, adjusted_image, ranks, match_vars, result,
                 error>>

\* lines 48-60
ExtractAdjust ==
  /\ pc = "adjust"
  /\ IF IsRotated(rotation)
     THEN LET adj == create_adjusters(image, rotation)
          IN /\ to_origin_adjuster' = <<adj.to_origin_adjuster>>
             /\ to_new_adjuster' = <<adj.to_new_adjuster>>
             /\ image' = adj.image
             /\ adjusted_image' = IF adjust_points THEN <<adj.image>> ELSE None
     ELSE UNCHANGED <<to_origin_adjuster, to_new_adjuster, image, adjusted_image>>
  /\ IF to_new_adjuster' # None
     THEN /\ fragment_origin_rectangles' =
               << [k \in 1..Len(fragments) |-> fragments[k].rect] >>
          /\ fragments' = adjust_fragment_rectangles(fragments, to_new_adjuster'[1])
     ELSE UNCHANGED <<fragment_origin_rectangles, fragments>>
  /\ pc' = "order"
  /\ UNCHANGED <<self_vars, arg_vars, rotation, ranks, match_vars, result,
                 error, built, invoked>>

\* lines 140-146, shared by the outcomes of _order_fragments
LoadLayoutModel ==
  LET h == get_handle(layout_model, layout_builds)
  IN /\ layout_model' = h.handle
     /\ layout_builds' = IF h.built THEN Min2(layout_builds + 1, MaxBuilds)
                         ELSE layout_builds
     /\ built' = IF h.built THEN built \cup {"layout"} ELSE built

\* line 157 divides by a zero image height
RateDivides == ~(image.size[1] > image.size[2]) /\ image.size[2] = 0

\* _order_fragments ending in ZeroDivisionError: at line 157, or in
\* _collect_rate_boxes (lines 276-279) when the fragments' union box has no
\* width or no height
OrderFragmentsDivides ==
  /\ pc = "order"
  /\ RateDivides \/ Len(fragments) > 0
  /\ LoadLayoutModel
  /\ error' = "ZeroDivisionError"
  /\ pc' = "raised"
  /\ UNCHANGED <<ocr_and_lan, yolo, yolo_builds, arg_vars, rot_vars, fragments,
                 ranks, match_vars, result, invoked>>

\* _order_fragments, lines 139-173
OrderFragments ==
  /\ pc = "order"
  /\ ~RateDivides
  /\ LoadLayoutModel
  /\ invoked' = invoked \cup {"layout"}
  /\ \E orders \in RankSeqs(Len(fragments)) :
       /\ ranks' = orders
       /\ fragments' = Ordered(fragments, orders)
  /\ pc' = "detect"
  /\ UNCHANGED <<ocr_and_lan, yolo, yolo_builds, arg_vars, rot_vars,
                 match_vars, result, error>>

\* lines 178-183: _get_yolo and predict
RunYolo ==
  LET h == get_handle(yolo, yolo_builds)
  IN /\ yolo' = h.handle
     /\ yolo_builds' = IF h.built THEN Min2(yolo_builds + 1, MaxBuilds)
                       ELSE yolo_builds
     /\ built' = IF h.built THEN built \cup {"yolo"} ELSE built
     /\ invoked' = invoked \cup {"yolo"}

\* _get_layouts where a detected box carries a class id outside
\* LayoutClass: line 189 raises ValueError
GetLayoutsBadClass ==
  /\ pc = "detect"
  /\ RunYolo
  /\ error' = "ValueError"
  /\ pc' = "raised"
  /\ UNCHANGED <<ocr_and_lan, layout_model, layout_builds, arg_vars, rot_vars,
                 fragments, ranks, match_vars, result>>

\* _get_layouts, lines 175-204
GetLayouts ==
  /\ pc = "detect"
  /\ RunYolo
  /\ \E m \in 0..MaxPageLayouts : layouts' = DetectedLayouts(m)
  /\ fragment_index' = 1
  /\ pc' = "match"
  /\ UNCHANGED <<ocr_and_lan, layout_model, layout_builds, arg_vars, rot_vars,
                 fragments, ranks, area_row, matched, result, error>>

\* ---------------------------------------------- _layouts_matched_by_fragments
\* one turn of the loop of lines 207-215
MatchFragment ==
  /\ pc = "match"
  /\ fragment_index <= Len(fragments)
  /\ \E row \in AreaRows(Len(layouts)) :
       LET j == MaxLayoutIndex(row, layouts)
       IN /\ j <= Len(layouts)
          /\ area_row' = row
          /\ layouts' = Appended(layouts, j, fragments[fragment_index])
  /\ fragment_index' = fragment_index + 1
  /\ UNCHANGED <<self_vars, pc, arg_vars, rot_vars, fragments, ranks, matched,
                 result, error, built, invoked>>

\* line 215 with no region at max_layout_index: IndexError
MatchIndexError ==
  /\ pc = "match"
  /\ fragment_index <= Len(fragments)
  /\ \E row \in AreaRows(Len(layouts)) :
       /\ MaxLayoutIndex(row, layouts) > Len(layouts)
       /\ area_row' = row
  /\ error' = "IndexError"
  /\ pc' = "raised"
  /\ UNCHANGED <<self_vars, arg_vars, rot_vars, fragments, ranks, layouts,
                 fragment_index, matched, result, built, invoked>>

\* lines 217-223, once the loop is through
MatchFinish ==
  /\ pc = "match"
  /\ fragment_index > Len(fragments)
  /\ layouts' = FinishedLayouts(layouts)
  /\ matched' = <<layouts'>>
  /\ area_row' = <<>>
  /\ pc' = "restore"
  /\ UNCHANGED <<self_vars, arg_vars, rot_vars, fragments, ranks,
                 fragment_index, result, error, built, invoked>>

\* lines 66-77
ExtractReturn ==
  /\ pc = "restore"
  /\ LET restored ==
           IF ~adjust_points /\ fragment_origin_rectangles # None
           THEN restore_fragments(layouts, fragment_origin_rectangles[1])
           ELSE layouts
         final ==
           IF ~adjust_points /\ to_origin_adjuster # None
           THEN adjust_layout_rectangles(restored, to_origin_adjuster[1])
           ELSE restored
     IN /\ layouts' = final
        /\ fragments' =
             IF ~adjust_points /\ fragment_origin_rectangles # None
             THEN [k \in 1..Len(fragments) |->
                     [fragments[k] EXCEPT
                        !.rect = RestoredRect(fragments[k], fragment_origin_rectangles[1])]]
             ELSE fragments
        /\ result' = << [rotation |-> rotation, layouts |-> final,
                         adjusted_image |-> adjusted_image] >>
  /\ pc' = "returned"
  /\ UNCHANGED <<self_vars, arg_vars, rot_vars, ranks, fragment_index,
                 area_row, matched, error, built, invoked>>

\* the call is over (returned or raised): its locals are gone, the
\* instance keeps its handles
CallEnds ==
  /\ pc \in {"returned", "raised"}
  /\ pc' = "idle"
  /\ source_image' = NoImage /\ image' = NoImage
  /\ lang' = "" /\ adjust_points' = FALSE
  /\ fragments' = <<>> /\ rotation' = 0
  /\ fragment_origin_rectangles' = None
  /\ to_origin_adjuster' = None /\ to_new_adjuster' = None
  /\ adjusted_image' = None
  /\ ranks' = <<>> /\ layouts' = <<>> /\ fragment_index' = 1 /\ area_row' = <<>>
  /\ result' = None /\ error' = ""
  /\ ocr_before' = None /\ ocr_used' = None
  /\ built' = {} /\ invoked' = {}
  /\ matched' = None
  /\ UNCHANGED self_vars

Next ==
  \/ ExtractBadLanguage
  \/ ExtractOcrFails
  \/ ExtractSearch
  \/ ExtractAdjust
  \/ OrderFragmentsDivides
  \/ OrderFragments
  \/ GetLayoutsBadClass
  \/ GetLayouts
  \/ MatchFragment
  \/ MatchIndexError
  \/ MatchFinish
  \/ ExtractReturn
  \/ CallEnds

Spec == Init /\ [][Next]_vars

\* ------------------------------------------- the matcher on its own inputs
\* any fragments (orders as the caller left them, not necessarily a
\* permutation) and any number of regions with empty fragment lists
MatchInit ==
  /\ ocr_and_lan = None /\ yolo = None /\ layout_model = None
  /\ yolo_builds = 0 /\ layout_builds = 0
  /\ pc = "match"
  /\ source_image = NoImage /\ image = NoImage
  /\ lang = "" /\ adjust_points = FALSE
  /\ \E n \in 0..MaxFrags :
       fragments \in {[k \in 1..n |-> [id |-> k, order |-> o[k],
                                       rect |-> RawRect("ocr", k)]] :
                        o \in [1..n -> 0..(n - 1)]}
  /\ rotation = 0
  /\ fragment_origin_rectangles = None
  /\ to_origin_adjuster = None /\ to_new_adjuster = None
  /\ adjusted_image = None
  /\ ranks = <<>>
  /\ \E m \in 0..MaxLayouts : layouts = DetectedLayouts(m)
  /\ fragment_index = 1 /\ area_row = <<>>
  /\ result = None /\ error = ""
  /\ ocr_before = None /\ ocr_used = None
  /\ built = {} /\ invoked = {}
  /\ matched = None

MatchNext == MatchFragment \/ MatchIndexError \/ MatchFinish

MatchSpec == MatchInit /\ [][MatchNext]_vars

\* ================================================================ claims
\* the places (region, position) at which fragment f sits in lays
Places(lays, f) ==
  UNION {{<<j, i>> : i \in {i \in 1..Len(lays[j].fragments) :
                                 lays[j].fragments[i] = f}} :
         j \in 1..Len(lays)}

RECURSIVE TotalFragments(_)
TotalFragments(lays) ==
  IF lays = <<>> THEN 0 ELSE Len(Head(lays).fragments) + TotalFragments(Tail(lays))

\* the order values of the regions' lists, one after the other
RECURSIVE ReadingSequence(_)
ReadingSequence(lays) ==
  IF lays = <<>> THEN <<>>
  ELSE [i \in 1..Len(Head(lays).fragments) |-> Head(lays).fragments[i].order]
       \o ReadingSequence(Tail(lays))

StrictlyAscending(s) == \A i \in 1..(Len(s) - 1) : s[i] < s[i + 1]

Ascending(s) == \A i \in 1..(Len(s) - 1) : s[i] <= s[i + 1]

OrdersOf(l) == [i \in 1..Len(l.fragments) |-> l.fragments[i].order]

MinOrder(l) ==
  CHOOSE o \in {l.fragments[i].order : i \in 1..Len(l.fragments)} :
    \A i \in 1..Len(l.fragments) : o <= l.fragments[i].order

\* the orders of the input fragments are a permutation of 0..N-1
OrdersArePermutation ==
  {fragments[k].order : k \in 1..Len(fragments)} = 0..(Len(fragments) - 1)

\* the lowest index at which row is maximal
FirstMaximal(row) ==
  CHOOSE j \in DOMAIN row :
    /\ \A i \in DOMAIN row : row[i] <= row[j]
    /\ \A i \in DOMAIN row : i < j => row[i] < row[j]

\* C1: once _layouts_matched_by_fragments has returned, every input
\* fragment sits at exactly one place of exactly one returned region, and
\* the regions hold as many fragments as were passed in.
C1_MatcherCompleteness ==
  pc = "restore" =>
    /\ \A k \in 1..Len(fragments) : Cardinality(Places(layouts, fragments[k])) = 1
    /\ TotalFragments(layouts) = Len(fragments)

\* three fragments returned over two regions
C1_Witness ==
  /\ pc = "restore"
  /\ Len(fragments) = 3
  /\ Len(layouts) = 2
  /\ Len(layouts[1].fragments) = 2

\* C2: with at least one region, the fragment the loop has just placed is
\* in the lowest-index region among those of maximal intersection area (so
\* in the first region when every area is 0, and in the 15-area region for
\* areas 10 and 15), and in no other region.
C2_FirstMaximalRegion ==
  (pc = "match" /\ fragment_index > 1 /\ Len(layouts) > 0) =>
    LET f == fragments[fragment_index - 1]
        j == FirstMaximal(area_row)
    IN /\ Places(layouts, f) = {<<j, Len(layouts[j].fragments)>>}
       /\ (\A i \in DOMAIN area_row : area_row[i] = 0) => j = 1
       /\ area_row = <<10, 15>> => j = 2

\* a fragment outside both regions has gone to the first one
C2_Witness ==
  /\ pc = "match"
  /\ fragment_index > 1
  /\ area_row = <<0, 0>>
  /\ Places(layouts, fragments[fragment_index - 1]) =
       {<<1, Len(layouts[1].fragments)>>}

\* C3: in the returned list every region has a fragment, each region's
\* fragments are in ascending order of `order`, and a region that precedes
\* another has a minimum order no greater than the other's.
C3_RegionOrdering ==
  pc = "restore" =>
    /\ \A j \in 1..Len(layouts) :
         /\ Len(layouts[j].fragments) > 0
         /\ Ascending(OrdersOf(layouts[j]))
    /\ \A a \in 1..Len(layouts) : \A b \in 1..Len(layouts) :
         a < b => MinOrder(layouts[a]) <= MinOrder(layouts[b])

\* the detector's second region comes out first, and a region with several
\* fragments is returned
C3_Witness ==
  /\ pc = "restore"
  /\ Len(layouts) = 2
  /\ layouts[1].idx = 2
  /\ Len(layouts[1].fragments) = 2
  /\ MinOrder(layouts[1]) < MinOrder(layouts[2])

\* C6 as claimed: an empty fragment list or an empty region list never
\* makes the matcher raise, and the layout list it returns is then empty.
C6_EmptySetsNeverRaise ==
  /\ (Len(fragments) = 0 \/ Len(layouts) = 0) => error = ""
  /\ (pc = "restore" /\ Len(fragments) = 0) => layouts = <<>>

\* C9 as claimed: when the orders are a permutation of 0..N-1, the order
\* values read region after region are strictly ascending.
C9_SingleLinearSequence ==
  (pc = "restore" /\ OrdersArePermutation) =>
    StrictlyAscending(ReadingSequence(layouts))

\* C9 amended: when the orders are a permutation of 0..N-1, the order
\* values are strictly ascending inside each returned region, and the
\* first orders of the regions are strictly ascending in output sequence.
C9_AscendingPerRegionAndHeads ==
  (pc = "restore" /\ OrdersArePermutation) =>
    /\ \A j \in 1..Len(layouts) : StrictlyAscending(OrdersOf(layouts[j]))
    /\ StrictlyAscending([j \in 1..Len(layouts) |-> layouts[j].fragments[1].order])

\* two regions whose order ranges interleave
C9_Witness ==
  /\ pc = "restore"
  /\ OrdersArePermutation
  /\ Len(layouts) = 2
  /\ OrdersOf(layouts[1]) = <<0, 2>>
  /\ OrdersOf(layouts[2]) = <<1>>

\* the regions of lays without their rectangles: which detected box, and
\* which fragments (by OCR position) in which order
Membership(lays) ==
  [j \in 1..Len(lays) |->
     [idx |-> lays[j].idx,
      fragments |-> [i \in 1..Len(lays[j].fragments) |->
                       <<lays[j].fragments[i].id, lays[j].fragments[i].order>>]]]

\* C4: a call with adjust_points = false returns no adjusted image and
\* fragments that carry the quadrilateral the OCR engine gave them; on a
\* rotated page every region box is the detector's box put through the
\* to-origin adjuster; regions, membership and orders are those the matcher
\* returned.
C4_OriginalFrame ==
  (pc = "returned" /\ ~adjust_points) =>
    LET r == result[1]
    IN /\ r.adjusted_image = None
       /\ \A j \in 1..Len(r.layouts) :
            /\ \A i \in 1..Len(r.layouts[j].fragments) :
                 r.layouts[j].fragments[i].rect =
                   RawRect("ocr", r.layouts[j].fragments[i].id)
            /\ Abs(rotation) > TINY_ROTATION =>
                 r.layouts[j].rect =
                   AdjustRect(RawRect("det", r.layouts[j].idx),
                              RotationAdjuster(source_image.size, image.size,
                                               rotation, TRUE))
       /\ Membership(r.layouts) = Membership(matched[1])

\* a rotated page returned in the original frame with a fragment in a region
C4_Witness ==
  /\ pc = "returned"
  /\ ~adjust_points
  /\ rotation = -6
  /\ image.size # source_image.size
  /\ Len(result[1].layouts) = 2
  /\ result[1].layouts[1].idx = 2

\* C5: with |rotation| <= _TINY_ROTATION no adjuster is built, the image is
\* neither rotated nor resized, no adjusted image is returned, and the
\* returned rectangles are the OCR engine's and the detector's own,
\* whatever adjust_points is.
C5_TinyRotationNoOp ==
  (pc \in {"order", "detect", "match", "restore", "returned"}
     /\ Abs(rotation) <= TINY_ROTATION) =>
    /\ to_origin_adjuster = None /\ to_new_adjuster = None
    /\ image = source_image
    /\ adjusted_image = None
    /\ pc = "returned" =>
         LET r == result[1]
         IN /\ r.adjusted_image = None
            /\ \A j \in 1..Len(r.layouts) :
                 /\ r.layouts[j].rect = RawRect("det", r.layouts[j].idx)
                 /\ \A i \in 1..Len(r.layouts[j].fragments) :
                      r.layouts[j].fragments[i].rect =
                        RawRect("ocr", r.layouts[j].fragments[i].id)

\* a page rotated by exactly the threshold, returned with adjust_points set
C5_Witness ==
  /\ pc = "returned"
  /\ rotation = TINY_ROTATION
  /\ adjust_points
  /\ Len(result[1].layouts) > 0

\* C7 as claimed: a call with an image of zero width or height, or with an
\* unsupported language, ends in an error with none of the three models
\* constructed or run.
C7_RejectedBeforeModels ==
  (pc # "idle" /\ (ZeroArea(source_image) \/ lang \notin SupportedLangs)) =>
    /\ pc = "raised"
    /\ built = {}
    /\ invoked = {}

\* C8 as claimed: extract never gets past _order_fragments with a rank
\* sequence whose length is not the number of fragments.
C8_WrongLengthFails ==
  pc \in {"detect", "match", "restore", "returned"} =>
    Len(ranks) = Len(fragments)

\* C10: the engine a call uses was built for the call's language; an engine
\* is constructed exactly when none was cached or the cached one was for
\* another language, and is then the cached one; otherwise the cached
\* engine is used and kept; the detector and the reading-order model are
\* constructed at most once, and a call that runs one without building it
\* runs that first one.
C10_ModelCaches ==
  /\ ocr_used # None =>
       /\ ocr_used[1].lang = lang
       /\ "ocr" \in built <=> (ocr_before = None \/ ocr_before[2] # lang)
       /\ ocr_and_lan = <<ocr_used[1], lang>>
       /\ "ocr" \notin built => (ocr_and_lan = ocr_before /\ ocr_used[1] = ocr_before[1])
  /\ yolo_builds <= 1 /\ layout_builds <= 1
  /\ ("yolo" \in invoked /\ "yolo" \notin built) => yolo = <<[serial |-> 1]>>
  /\ ("layout" \in invoked /\ "layout" \notin built) => layout_model = <<[serial |-> 1]>>

\* a later call in another language: the engine is rebuilt, the detector
\* and the reading-order model are reused
C10_Witness ==
  /\ pc = "match"
  /\ ocr_before # None
  /\ ocr_before[2] # lang
  /\ built = {"ocr"}
  /\ invoked = {"ocr", "layout", "yolo"}

====
